---- MODULE Spec2Model ----
(***************************************************************************)
(* Model of the in-memory recipe store in recipe_backend/src/api/main.py:  *)
(* the module globals _RECIPES and _NEXT_ID, the pydantic models that      *)
(* validate request bodies and stored records, and the five /recipes       *)
(* handlers.  Spec and SpecFields run the handlers one request at a time;  *)
(* SpecConc and SpecRace run them on worker threads whose statements       *)
(* interleave.                                                             *)
(***************************************************************************)
EXTENDS Integers, Sequences, FiniteSets, TLC

VARIABLES _RECIPES, _NEXT_ID, clock, last, assigned, deleted, th

vars == <<_RECIPES, _NEXT_ID, clock, last, assigned, deleted, th>>

(***************************************************************************)
(* Bounds of the model.                                                    *)
(***************************************************************************)
\* creates are dispatched while _NEXT_ID < MaxNextId
MaxNextId == 4
\* the wall clock takes the readings 0..MaxClock
MaxClock == 1
\* the field-level specification dispatches creates while _NEXT_ID < FieldsMaxNextId
FieldsMaxNextId == 2
\* worker threads dispatch at most ConcMaxCreates creates
ConcMaxCreates == 3
\* the delete/update race dispatches creates while _NEXT_ID < RaceMaxNextId
RaceMaxNextId == 2
\* the clock readings per second
TicksPerSecond == 2

(***************************************************************************)
(* JSON / Python values.  A value carries its type: a str is a tuple of    *)
(* characters, a list a tuple of values, None has no content.              *)
(***************************************************************************)
Str(s) == [t |-> "str", v |-> s]
List(s) == [t |-> "list", v |-> s]
Null == [t |-> "null", v |-> <<>>]

Rep(c, n) == [i \in 1..n |-> c]

Fields == {"title", "description", "ingredients", "steps", "color"}

TitleMinLen == 1
TitleMaxLen == 120
DescriptionMaxLen == 500
ColorLen == 7

HexDigits ==
    {"0", "1", "2", "3", "4", "5", "6", "7", "8", "9",
     "a", "b", "c", "d", "e", "f", "A", "B", "C", "D", "E", "F"}

\* the pattern without its end anchor: text may follow the six digits
MatchesColorPattern_unanchored(s) ==
    /\ Len(s) >= ColorLen
    /\ s[1] = "#"
    /\ \A i \in 2..ColorLen : s[i] \in HexDigits

\* pattern ^#([A-Fa-f0-9]{6})$ : the whole string is '#' and six hex digits
MatchesColorPattern(s) ==
    /\ Len(s) = ColorLen
    /\ s[1] = "#"
    /\ \A i \in 2..ColorLen : s[i] \in HexDigits

IsStr(x) == x.t = "str"

IsStrList(x) == x.t = "list" /\ \A i \in 1..Len(x.v) : IsStr(x.v[i])

\* the constraint RecipeBase declares for field f, applied to value x
FieldOk(f, x) ==
    CASE f = "title" -> IsStr(x) /\ Len(x.v) >= TitleMinLen /\ Len(x.v) <= TitleMaxLen
      [] f = "description" -> IsStr(x) /\ Len(x.v) <= DescriptionMaxLen
      [] f = "ingredients" -> IsStrList(x)
      [] f = "steps" -> IsStrList(x)
      [] f = "color" -> IsStr(x) /\ MatchesColorPattern(x.v)

DefaultColor == Str(<<"#", "3", "b", "8", "2", "f", "6">>)

\* the defaults with another accent color
FieldDefault_otherColor(f) ==
    CASE f = "description" -> Str(<<>>)
      [] f = "ingredients" -> List(<<>>)
      [] f = "steps" -> List(<<>>)
      [] f = "color" -> Str(<<"#", "0", "0", "0", "0", "0", "0">>)

FieldDefault(f) ==
    CASE f = "description" -> Str(<<>>)
      [] f = "ingredients" -> List(<<>>)
      [] f = "steps" -> List(<<>>)
      [] f = "color" -> DefaultColor

\* RecipeCreate accepts a body: title is required, every known key that is
\* present meets its constraint, unknown keys are ignored
RecipeCreateValid(body) ==
    /\ "title" \in DOMAIN body
    /\ \A f \in Fields \cap DOMAIN body : FieldOk(f, body[f])

\* RecipeCreate.model_dump(): all five fields, defaults filled in
RecipeCreateDump(body) ==
    [f \in Fields |-> IF f \in DOMAIN body THEN body[f] ELSE FieldDefault(f)]

\* the request model that accepts every body
RecipeUpdateValid_lax(body) == TRUE

\* RecipeUpdate accepts a body: every field is Optional, so None passes; any
\* other value meets the field's constraint
RecipeUpdateValid(body) ==
    \A f \in Fields \cap DOMAIN body : body[f] = Null \/ FieldOk(f, body[f])

\* the dump with the undeclared keys kept
RecipeUpdateDump_keepsExtra(body) == body

\* RecipeUpdate.model_dump(exclude_unset=True): the known keys the body set
RecipeUpdateDump(body) ==
    [f \in Fields \cap DOMAIN body |-> body[f]]

\* the record built without validation
RecipeValid_unchecked(data) == TRUE

\* Recipe(**data) validates: the RecipeBase constraints, id an int, both
\* timestamps str
RecipeValid(data) ==
    /\ \A f \in Fields : FieldOk(f, data[f])
    /\ data.id \in Int
    /\ IsStr(data.created_at)
    /\ IsStr(data.updated_at)

\* dict.update: keys of patch overwrite, the others stay
DictUpdate(data, patch) ==
    [k \in DOMAIN data \cup DOMAIN patch |->
        IF k \in DOMAIN patch THEN patch[k] ELSE data[k]]

(***************************************************************************)
(* The clock.  A reading c counts fractions of a second; isoformat()       *)
(* prints the seconds, prints the fraction only when it is not zero, and   *)
(* ends with the UTC offset.                                               *)
(***************************************************************************)
DigitChar(d) ==
    CASE d = 0 -> "0" [] d = 1 -> "1" [] d = 2 -> "2" [] d = 3 -> "3" [] d = 4 -> "4"
      [] d = 5 -> "5" [] d = 6 -> "6" [] d = 7 -> "7" [] d = 8 -> "8" [] d = 9 -> "9"

_utc_now_iso(c) ==
    Str(<<DigitChar((c \div TicksPerSecond) \div 10), DigitChar((c \div TicksPerSecond) % 10)>>
        \o (IF c % TicksPerSecond = 0 THEN <<>> ELSE <<".", DigitChar(c % TicksPerSecond)>>)
        \o <<"+">>)

(***************************************************************************)
(* sorted(_RECIPES.keys())                                                 *)
(***************************************************************************)
Min(S) == CHOOSE x \in S : \A y \in S : x <= y

Max(S) == CHOOSE x \in S : \A y \in S : x >= y

\* the keys in descending order
RECURSIVE sorted_reverse(_)
sorted_reverse(S) == IF S = {} THEN <<>> ELSE <<Max(S)>> \o sorted_reverse(S \ {Max(S)})

RECURSIVE sorted(_)
sorted(S) == IF S = {} THEN <<>> ELSE <<Min(S)>> \o sorted(S \ {Min(S)})

(***************************************************************************)
(* Request bodies the model sends.                                         *)
(***************************************************************************)
TitleT == Str(<<"T">>)
TitleU == Str(<<"U">>)
Title120 == Str(Rep("t", TitleMaxLen))
Title121 == Str(Rep("t", TitleMaxLen + 1))
Desc500 == Str(Rep("d", DescriptionMaxLen))
Desc501 == Str(Rep("d", DescriptionMaxLen + 1))
ColorUpper == Str(<<"#", "A", "B", "C", "D", "E", "F">>)
ColorMixed == Str(<<"#", "0", "0", "f", "F", "9", "a">>)
ColorBlue == Str(<<"b", "l", "u", "e">>)
ColorShort == Str(<<"#", "1", "2", "3", "4", "5">>)
ColorNotHex == Str(<<"#", "1", "2", "3", "4", "5", "g">>)
ColorNewline == Str(<<"#", "1", "2", "3", "4", "5", "6", "\n">>)
Eggs == List(<<Str(<<"2", "e">>)>>)
Whisk == List(<<Str(<<"w">>), Str(<<>>)>>)

NoKeys == [k \in {} |-> Null]

\* POST bodies: two that RecipeCreate accepts (the required field alone;
\* every field, at the length limits) and bodies that break one constraint
ValidCreateBodies ==
    { ("title" :> TitleT),
      ("title" :> Title120) @@ ("description" :> Desc500) @@ ("ingredients" :> Eggs)
          @@ ("steps" :> Whisk) @@ ("color" :> ColorUpper) }

InvalidCreateBodies ==
    { NoKeys,
      ("description" :> Desc500),
      ("title" :> Str(<<>>)),
      ("title" :> Title121),
      ("title" :> Null),
      ("title" :> TitleT) @@ ("description" :> Desc501),
      ("title" :> TitleT) @@ ("ingredients" :> Str(<<"e">>)),
      ("title" :> TitleT) @@ ("steps" :> List(<<Null>>)),
      ("title" :> TitleT) @@ ("color" :> ColorBlue),
      ("title" :> TitleT) @@ ("color" :> ColorShort),
      ("title" :> TitleT) @@ ("color" :> ColorNotHex),
      ("title" :> TitleT) @@ ("color" :> ColorNewline) }

CreateBodies == ValidCreateBodies \cup InvalidCreateBodies

\* PUT bodies: patches RecipeUpdate and Recipe accept, patches RecipeUpdate
\* rejects, and patches that set a field to null
ValidUpdateBodies ==
    { NoKeys,
      ("title" :> TitleU) @@ ("color" :> ColorMixed),
      ("description" :> Str(<<>>)) @@ ("ingredients" :> List(<<>>)) @@ ("steps" :> List(<<>>)) }

InvalidUpdateBodies ==
    { ("title" :> Str(<<>>)),
      ("title" :> Title121),
      ("description" :> Desc501),
      ("steps" :> Str(<<"w">>)),
      ("title" :> TitleU) @@ ("color" :> ColorBlue) }

NullUpdateBodies == { (f :> Null) : f \in Fields } \cup { ("title" :> TitleU) @@ ("color" :> Null) }

UpdateBodies == ValidUpdateBodies \cup InvalidUpdateBodies \cup NullUpdateBodies

\* the bodies of the store-level specification: accepted and rejected POST
\* bodies, accepted, rejected and null PUT bodies; one body of each kind
\* carries a key "id", which neither request model declares
StoreCreateBodies ==
    { ("title" :> TitleT),
      ("id" :> 7) @@ ("title" :> TitleT),
      ("title" :> TitleT) @@ ("color" :> ColorBlue) }

StoreUpdateBodies ==
    { ("title" :> TitleU),
      ("id" :> 7) @@ ("title" :> TitleU),
      ("color" :> ColorBlue),
      ("title" :> Null) }

\* ids a request path can carry: negative, zero and positive
PathIds == -1..MaxNextId

FieldsPathIds == 1..FieldsMaxNextId

(***************************************************************************)
(* The handlers, one request at a time.                                    *)
(***************************************************************************)
Response(op, id, body, status, out) ==
    [op |-> op, id |-> id, p |-> body, status |-> status, body |-> out]

\* the path parameter with zero let through
PathIdValid_fromZero(id) == id >= 0

\* the path parameter declares ge=1
PathIdValid(id) == id >= 1

\* the id taken from the number of stored records
AllocId_fromSize(next, store) == Cardinality(DOMAIN store) + 1

\* recipe_id = _NEXT_ID
AllocId(next, store) == next

\* the threads of the pool that runs the handlers
Workers == {"w1", "w2"}

\* a thread: its place in the handler, the request, the handler's locals
\* recipe_id, the value loaded for += and recipe/existing/updated, and the
\* status of the response once it has returned
Thread(pc, op, id, body, recipe_id, reg, data, status) ==
    [pc |-> pc, op |-> op, id |-> id, p |-> body, recipe_id |-> recipe_id,
     reg |-> reg, data |-> data, status |-> status]

Idle == Thread("idle", "none", 0, NoKeys, 0, 0, Null, 0)

Init ==
    /\ _RECIPES = [k \in {} |-> Null]
    /\ _NEXT_ID = 1
    /\ clock = 0
    /\ last = Response("none", 0, NoKeys, 0, <<>>)
    /\ assigned = <<>>
    /\ deleted = {}
    /\ th = [w \in Workers |-> Idle]

\* time passes
Tick ==
    /\ clock < MaxClock
    /\ clock' = clock + 1
    /\ UNCHANGED <<_RECIPES, _NEXT_ID, last, assigned, deleted, th>>

\* GET /recipes
list_recipes ==
    /\ last' = Response("list", 0, NoKeys, 200,
                        [i \in 1..Cardinality(DOMAIN _RECIPES) |->
                            _RECIPES[sorted(DOMAIN _RECIPES)[i]]])
    /\ UNCHANGED <<_RECIPES, _NEXT_ID, clock, assigned, deleted, th>>

\* the record create_recipe builds and stores
NewRecipe(id, now, dump) ==
    DictUpdate([id |-> id, created_at |-> now, updated_at |-> now], dump)

\* POST /recipes
create_recipe(body) ==
    IF ~RecipeCreateValid(body)
    THEN /\ last' = Response("create", 0, body, 422, <<>>)
         /\ UNCHANGED <<_RECIPES, _NEXT_ID, clock, assigned, deleted, th>>
    ELSE LET recipe_id == AllocId(_NEXT_ID, _RECIPES)
             recipe == NewRecipe(recipe_id, _utc_now_iso(clock), RecipeCreateDump(body))
         IN  /\ _NEXT_ID' = _NEXT_ID + 1
             /\ IF RecipeValid(recipe)
                THEN /\ _RECIPES' = DictUpdate(_RECIPES, recipe_id :> recipe)
                     /\ last' = Response("create", 0, body, 200, <<recipe>>)
                     /\ assigned' = Append(assigned, recipe.id)
                ELSE /\ last' = Response("create", 0, body, 500, <<>>)
                     /\ UNCHANGED <<_RECIPES, assigned>>
             /\ UNCHANGED <<clock, deleted, th>>

\* _RECIPES.get(recipe_id): the record, or None
DictGet(store, id) == IF id \in DOMAIN store THEN store[id] ELSE Null

\* GET /recipes/{recipe_id}
get_recipe(id) ==
    /\ last' = IF ~PathIdValid(id) THEN Response("get", id, NoKeys, 422, <<>>)
               ELSE IF DictGet(_RECIPES, id) = Null THEN Response("get", id, NoKeys, 404, <<>>)
               ELSE Response("get", id, NoKeys, 200, <<DictGet(_RECIPES, id)>>)
    /\ UNCHANGED <<_RECIPES, _NEXT_ID, clock, assigned, deleted, th>>

\* the merge that skips falsy patch values
UpdatedData_truthy(existing, patch, now) ==
    DictUpdate(DictUpdate(existing, [k \in {f \in DOMAIN patch : patch[f].v # <<>>} |-> patch[k]]),
               "updated_at" :> now)

\* the merge that stamps created_at instead of updated_at
UpdatedData_stampsCreated(existing, patch, now) ==
    DictUpdate(DictUpdate(existing, patch), "created_at" :> now)

\* updated_data of update_recipe: the stored fields, the patch over them, a
\* fresh updated_at
UpdatedData(existing, patch, now) ==
    DictUpdate(DictUpdate(existing, patch), "updated_at" :> now)

\* PUT /recipes/{recipe_id}
update_recipe(id, body) ==
    IF ~PathIdValid(id) \/ ~RecipeUpdateValid(body)
    THEN /\ last' = Response("update", id, body, 422, <<>>)
         /\ UNCHANGED <<_RECIPES, _NEXT_ID, clock, assigned, deleted, th>>
    ELSE IF DictGet(_RECIPES, id) = Null
    THEN /\ last' = Response("update", id, body, 404, <<>>)
         /\ UNCHANGED <<_RECIPES, _NEXT_ID, clock, assigned, deleted, th>>
    ELSE LET updated == UpdatedData(DictGet(_RECIPES, id), RecipeUpdateDump(body),
                                    _utc_now_iso(clock))
         IN  /\ IF RecipeValid(updated)
                THEN /\ _RECIPES' = DictUpdate(_RECIPES, id :> updated)
                     /\ last' = Response("update", id, body, 200, <<updated>>)
                ELSE /\ last' = Response("update", id, body, 500, <<>>)
                     /\ UNCHANGED _RECIPES
             /\ UNCHANGED <<_NEXT_ID, clock, assigned, deleted, th>>

\* the delete that never reports a missing id
NotInStore_never(store, id) == FALSE

\* recipe_id not in _RECIPES, as delete_recipe tests it
NotInStore(store, id) == id \notin DOMAIN store

\* del _RECIPES[recipe_id]
DictDel(store, id) == [k \in DOMAIN store \ {id} |-> store[k]]

\* DELETE /recipes/{recipe_id}
delete_recipe(id) ==
    IF ~PathIdValid(id)
    THEN /\ last' = Response("delete", id, NoKeys, 422, <<>>)
         /\ UNCHANGED <<_RECIPES, _NEXT_ID, clock, assigned, deleted, th>>
    ELSE IF NotInStore(_RECIPES, id)
    THEN /\ last' = Response("delete", id, NoKeys, 404, <<>>)
         /\ UNCHANGED <<_RECIPES, _NEXT_ID, clock, assigned, deleted, th>>
    ELSE /\ _RECIPES' = DictDel(_RECIPES, id)
         /\ deleted' = deleted \cup {id}
         /\ last' = Response("delete", id, NoKeys, 200, <<[deleted |-> TRUE, id |-> id]>>)
         /\ UNCHANGED <<_NEXT_ID, clock, assigned, th>>

Create ==
    \E body \in StoreCreateBodies :
        /\ RecipeCreateValid(body) => _NEXT_ID < MaxNextId
        /\ create_recipe(body)
Get == \E id \in PathIds : get_recipe(id)
Update == \E id \in PathIds : \E body \in StoreUpdateBodies : update_recipe(id, body)
Delete == \E id \in PathIds : delete_recipe(id)

Next == Tick \/ list_recipes \/ Create \/ Get \/ Update \/ Delete

\* the store-level specification: every handler, few bodies, several records
Spec == Init /\ [][Next]_vars

FieldsCreate ==
    \E body \in CreateBodies :
        /\ RecipeCreateValid(body) => _NEXT_ID < FieldsMaxNextId
        /\ create_recipe(body)
FieldsUpdate == \E id \in FieldsPathIds : \E body \in UpdateBodies : update_recipe(id, body)

FieldsGet == \E id \in FieldsPathIds : get_recipe(id)

FieldsNext == Tick \/ FieldsCreate \/ FieldsUpdate \/ FieldsGet

\* the field-level specification: create and update with every body above
SpecFields == Init /\ [][FieldsNext]_vars

(***************************************************************************)
(* The handlers on worker threads.  FastAPI runs a def handler in a thread *)
(* pool, and the handlers take no lock: a step is one access to a global   *)
(* (_NEXT_ID, _RECIPES, the clock) together with the local work after it.  *)
(***************************************************************************)
ConcCreateBodies == { ("title" :> TitleT) }

ConcUpdateBodies == { ("title" :> TitleU) }

ConcPathIds == 1..2

\* thread w returns: its locals die, the request and the status stay
Return(w, status) ==
    [th EXCEPT ![w] = Thread("idle", th[w].op, th[w].id, th[w].p, 0, 0, Null, status)]

Goto(w, pc) == [th EXCEPT ![w].pc = pc]

CreatesDispatched ==
    Len(assigned) + Cardinality({w \in Workers : th[w].op = "create" /\ th[w].pc # "idle"})

\* POST /recipes reaches create_recipe with a validated body
DispatchCreate(w) ==
    \E body \in ConcCreateBodies :
        /\ th[w].pc = "idle"
        /\ CreatesDispatched < ConcMaxCreates
        /\ RecipeCreateValid(body)
        /\ th' = [th EXCEPT ![w] = Thread("c_read", "create", 0, body, 0, 0, Null, 0)]
        /\ UNCHANGED <<_RECIPES, _NEXT_ID, clock, last, assigned, deleted>>

\* recipe_id = _NEXT_ID
CreateRead(w) ==
    /\ th[w].pc = "c_read"
    /\ th' = [th EXCEPT ![w].recipe_id = AllocId(_NEXT_ID, _RECIPES), ![w].pc = "c_load"]
    /\ UNCHANGED <<_RECIPES, _NEXT_ID, clock, last, assigned, deleted>>

\* _NEXT_ID += 1 loads the global ...
CreateLoad(w) ==
    /\ th[w].pc = "c_load"
    /\ th' = [th EXCEPT ![w].reg = _NEXT_ID, ![w].pc = "c_store"]
    /\ UNCHANGED <<_RECIPES, _NEXT_ID, clock, last, assigned, deleted>>

\* ... and stores the sum
CreateStore(w) ==
    /\ th[w].pc = "c_store"
    /\ _NEXT_ID' = th[w].reg + 1
    /\ th' = Goto(w, "c_build")
    /\ UNCHANGED <<_RECIPES, clock, last, assigned, deleted>>

\* now = _utc_now_iso(); recipe = Recipe(...)
CreateBuild(w) ==
    /\ th[w].pc = "c_build"
    /\ LET recipe == NewRecipe(th[w].recipe_id, _utc_now_iso(clock), RecipeCreateDump(th[w].p))
       IN  th' = IF RecipeValid(recipe)
                 THEN [th EXCEPT ![w].data = recipe, ![w].pc = "c_insert"]
                 ELSE Return(w, 500)
    /\ UNCHANGED <<_RECIPES, _NEXT_ID, clock, last, assigned, deleted>>

\* _RECIPES[recipe_id] = recipe; return recipe
CreateInsert(w) ==
    /\ th[w].pc = "c_insert"
    /\ _RECIPES' = DictUpdate(_RECIPES, th[w].recipe_id :> th[w].data)
    /\ assigned' = Append(assigned, th[w].data.id)
    /\ th' = Return(w, 200)
    /\ UNCHANGED <<_NEXT_ID, clock, last, deleted>>

\* PUT /recipes/{recipe_id} reaches update_recipe with a validated body
DispatchUpdate(w) ==
    \E id \in ConcPathIds : \E body \in ConcUpdateBodies :
        /\ th[w].pc = "idle"
        /\ PathIdValid(id) /\ RecipeUpdateValid(body)
        /\ th' = [th EXCEPT ![w] = Thread("u_get", "update", id, body, 0, 0, Null, 0)]
        /\ UNCHANGED <<_RECIPES, _NEXT_ID, clock, last, assigned, deleted>>

\* existing = _RECIPES.get(recipe_id); 404 if it is None
UpdateGet(w) ==
    /\ th[w].pc = "u_get"
    /\ th' = IF DictGet(_RECIPES, th[w].id) = Null
             THEN Return(w, 404)
             ELSE [th EXCEPT ![w].data = DictGet(_RECIPES, th[w].id), ![w].pc = "u_build"]
    /\ UNCHANGED <<_RECIPES, _NEXT_ID, clock, last, assigned, deleted>>

\* updated_data ...; updated = Recipe(**updated_data)
UpdateBuild(w) ==
    /\ th[w].pc = "u_build"
    /\ LET updated == UpdatedData(th[w].data, RecipeUpdateDump(th[w].p), _utc_now_iso(clock))
       IN  th' = IF RecipeValid(updated)
                 THEN [th EXCEPT ![w].data = updated, ![w].pc = "u_write"]
                 ELSE Return(w, 500)
    /\ UNCHANGED <<_RECIPES, _NEXT_ID, clock, last, assigned, deleted>>

\* _RECIPES[recipe_id] = updated; return updated
UpdateWrite(w) ==
    /\ th[w].pc = "u_write"
    /\ _RECIPES' = DictUpdate(_RECIPES, th[w].id :> th[w].data)
    /\ th' = Return(w, 200)
    /\ UNCHANGED <<_NEXT_ID, clock, last, assigned, deleted>>

\* DELETE /recipes/{recipe_id} reaches delete_recipe
DispatchDelete(w) ==
    \E id \in ConcPathIds :
        /\ th[w].pc = "idle"
        /\ PathIdValid(id)
        /\ th' = [th EXCEPT ![w] = Thread("d_check", "delete", id, NoKeys, 0, 0, Null, 0)]
        /\ UNCHANGED <<_RECIPES, _NEXT_ID, clock, last, assigned, deleted>>

\* if recipe_id not in _RECIPES: 404
DeleteCheck(w) ==
    /\ th[w].pc = "d_check"
    /\ th' = IF NotInStore(_RECIPES, th[w].id) THEN Return(w, 404) ELSE Goto(w, "d_del")
    /\ UNCHANGED <<_RECIPES, _NEXT_ID, clock, last, assigned, deleted>>

\* del _RECIPES[recipe_id] (a KeyError if the key has gone); return
DeleteDel(w) ==
    /\ th[w].pc = "d_del"
    /\ IF th[w].id \in DOMAIN _RECIPES
       THEN /\ _RECIPES' = DictDel(_RECIPES, th[w].id)
            /\ deleted' = deleted \cup {th[w].id}
            /\ th' = Return(w, 200)
       ELSE /\ th' = Return(w, 500)
            /\ UNCHANGED <<_RECIPES, deleted>>
    /\ UNCHANGED <<_NEXT_ID, clock, last, assigned>>

CreateSteps ==
    \E w \in Workers :
        DispatchCreate(w) \/ CreateRead(w) \/ CreateLoad(w) \/ CreateStore(w)
            \/ CreateBuild(w) \/ CreateInsert(w)

UpdateSteps ==
    \E w \in Workers : DispatchUpdate(w) \/ UpdateGet(w) \/ UpdateBuild(w) \/ UpdateWrite(w)

DeleteSteps ==
    \E w \in Workers : DispatchDelete(w) \/ DeleteCheck(w) \/ DeleteDel(w)

ConcNext == Tick \/ CreateSteps \/ UpdateSteps \/ DeleteSteps

\* every handler on the thread pool
SpecConc == Init /\ [][ConcNext]_vars

RaceCreate ==
    \E body \in ConcCreateBodies : _NEXT_ID < RaceMaxNextId /\ create_recipe(body)

RaceNext == Tick \/ RaceCreate \/ UpdateSteps \/ DeleteSteps

\* updates and deletes on the thread pool, creates one at a time
SpecRace == Init /\ [][RaceNext]_vars

\* GET /recipes reaches list_recipes
DispatchList(w) ==
    /\ th[w].pc = "idle"
    /\ th' = [th EXCEPT ![w] = Thread("l_keys", "list", 0, NoKeys, 0, 0, Null, 0)]
    /\ UNCHANGED <<_RECIPES, _NEXT_ID, clock, last, assigned, deleted>>

\* sorted(_RECIPES.keys()): the snapshot of the keys the comprehension walks
ListSnapshot(w) ==
    /\ th[w].pc = "l_keys"
    /\ th' = [th EXCEPT ![w].data = [t |-> "keys", v |-> sorted(DOMAIN _RECIPES)],
                        ![w].pc = "l_item"]
    /\ UNCHANGED <<_RECIPES, _NEXT_ID, clock, last, assigned, deleted>>

\* _RECIPES[k] for the next key of the snapshot (a KeyError if the key has
\* gone)
ListLookup(w) ==
    /\ th[w].pc = "l_item"
    /\ th[w].data.v # <<>>
    /\ th' = IF Head(th[w].data.v) \in DOMAIN _RECIPES
             THEN [th EXCEPT ![w].data.v = Tail(@)]
             ELSE Return(w, 500)
    /\ UNCHANGED <<_RECIPES, _NEXT_ID, clock, last, assigned, deleted>>

\* the comprehension is exhausted; return the list
ListReturn(w) ==
    /\ th[w].pc = "l_item"
    /\ th[w].data.v = <<>>
    /\ th' = Return(w, 200)
    /\ UNCHANGED <<_RECIPES, _NEXT_ID, clock, last, assigned, deleted>>

ListSteps ==
    \E w \in Workers : DispatchList(w) \/ ListSnapshot(w) \/ ListLookup(w) \/ ListReturn(w)

ListNext == Tick \/ RaceCreate \/ DeleteSteps \/ ListSteps

\* lists and deletes on the thread pool, creates one at a time
SpecList == Init /\ [][ListNext]_vars

\* patches that set disjoint fields
PatchBodies == { ("title" :> TitleU), ("color" :> ColorMixed) }

\* PUT /recipes/{recipe_id} reaches update_recipe with one of the patches
DispatchPatch(w) ==
    \E id \in ConcPathIds : \E body \in PatchBodies :
        /\ th[w].pc = "idle"
        /\ PathIdValid(id) /\ RecipeUpdateValid(body)
        /\ th' = [th EXCEPT ![w] = Thread("u_get", "update", id, body, 0, 0, Null, 0)]
        /\ UNCHANGED <<_RECIPES, _NEXT_ID, clock, last, assigned, deleted>>

PatchSteps ==
    \E w \in Workers : DispatchPatch(w) \/ UpdateGet(w) \/ UpdateBuild(w) \/ UpdateWrite(w)

PatchNext == Tick \/ RaceCreate \/ PatchSteps

\* updates of different fields on the thread pool, creates one at a time
SpecPatch == Init /\ [][PatchNext]_vars

(***************************************************************************)
(* The field constraints of the data model, as the specification words     *)
(* them.                                                                   *)
(***************************************************************************)
IsHexColor(s) ==
    /\ Len(s) = 7
    /\ s[1] = "#"
    /\ \A i \in 2..7 :
          s[i] \in {"0", "1", "2", "3", "4", "5", "6", "7", "8", "9", "a", "b",
                    "c", "d", "e", "f", "A", "B", "C", "D", "E", "F"}

Constraint(f, x) ==
    CASE f = "title" -> x.t = "str" /\ Len(x.v) \in 1..120
      [] f = "description" -> x.t = "str" /\ Len(x.v) <= 500
      [] f \in {"ingredients", "steps"} ->
            x.t = "list" /\ \A i \in 1..Len(x.v) : x.v[i].t = "str"
      [] f = "color" -> x.t = "str" /\ IsHexColor(x.v)

\* some provided field breaks its constraint
BreaksConstraint(body) == \E f \in Fields \cap DOMAIN body : ~Constraint(f, body[f])

\* the step is the handling of a request of kind op
Handles(op) == last' # last /\ last'.op = op

StoreUnchanged == _RECIPES' = _RECIPES /\ _NEXT_ID' = _NEXT_ID

(***************************************************************************)
(* C1: run one after another, successful creates return strictly           *)
(* increasing ids, so an id is never handed out twice, and a deleted id    *)
(* is never a key of the store again.                                      *)
(***************************************************************************)
C1_IdsStrictlyIncrease ==
    /\ \A i, j \in DOMAIN assigned : i < j => assigned[i] < assigned[j]
    /\ \A d \in deleted : d \notin DOMAIN _RECIPES

\* a create has returned an id greater than one deleted before it
C1_Witness ==
    /\ last.op = "create"
    /\ last.status = 200
    /\ \E d \in deleted : d < last.body[1].id

(***************************************************************************)
(* C2 as stated: creates that run concurrently never return the same id,   *)
(* and once no create is running every id a create returned is a key of    *)
(* the store unless a delete has removed it.                               *)
(***************************************************************************)
C2_ConcurrentCreatesDistinct ==
    /\ \A i, j \in DOMAIN assigned : i # j => assigned[i] # assigned[j]
    /\ (\A w \in Workers : th[w].op = "create" => th[w].pc = "idle")
          => \A i \in DOMAIN assigned : assigned[i] \in DOMAIN _RECIPES \cup deleted

(***************************************************************************)
(* C3 as stated: a delete and an update of the same existing id that run   *)
(* concurrently end as one of the two serial orders: once the delete has   *)
(* answered 200 the id is not a key of the store, and the update has       *)
(* answered 200 (it came first) or 404.                                    *)
(***************************************************************************)
C3_DeleteUpdateSerial ==
    \A w \in Workers :
        (th[w].pc = "idle" /\ th[w].op = "delete" /\ th[w].status = 200)
            => /\ th[w].id \notin DOMAIN _RECIPES
               /\ \A u \in Workers :
                     (th[u].pc = "idle" /\ th[u].op = "update" /\ th[u].id = th[w].id)
                         => th[u].status \in {200, 404}

C5_AsStated ==
    [][(/\ last' # last
        /\ last'.op \in {"get", "update", "delete"}
        /\ last'.id >= 1
        /\ last'.id \notin DOMAIN _RECIPES)
       => (last'.status = 404 /\ StoreUnchanged)]_vars

\* the body passes request validation: each provided field is null or
\* meets its constraint
BodyAccepted(body) ==
    \A f \in Fields \cap DOMAIN body : body[f] = Null \/ Constraint(f, body[f])

(***************************************************************************)
(* C5, amended: get and delete with a positive id that is not in the       *)
(* store, and update with such an id and a body that passes request        *)
(* validation, answer 404; an update whose body fails request validation   *)
(* answers 422 instead; in each case the mapping and the counter stay as   *)
(* they were.                                                              *)
(***************************************************************************)
C5_NotFoundLeavesStore ==
    [][(/\ last' # last
        /\ last'.op \in {"get", "update", "delete"}
        /\ last'.id >= 1
        /\ last'.id \notin DOMAIN _RECIPES)
       => /\ StoreUnchanged
          /\ last'.status =
                IF last'.op = "update" /\ ~BodyAccepted(last'.p) THEN 422 ELSE 404]_vars

\* an update of an id that was deleted has answered 404, and a record is
\* still stored
C5_Witness ==
    /\ last.op = "update"
    /\ last.status = 404
    /\ last.id \in deleted
    /\ DOMAIN _RECIPES # {}

(***************************************************************************)
(* C6: a create whose body lacks the title or breaks a field constraint    *)
(* answers 422 and changes neither the mapping nor the counter; a create   *)
(* that succeeds returns the counter's value, so the rejected creates cost *)
(* no id.                                                                  *)
(***************************************************************************)
C6_RejectedCreateLeavesStore ==
    [][/\ (Handles("create") /\ ("title" \notin DOMAIN last'.p \/ BreaksConstraint(last'.p)))
            => (last'.status = 422 /\ StoreUnchanged /\ assigned' = assigned)
       /\ (Handles("create") /\ last'.status = 200)
            => (last'.body[1].id = _NEXT_ID /\ _NEXT_ID' = _NEXT_ID + 1)]_vars

\* a create with color "blue" was rejected while a record was stored
C6_Witness ==
    /\ last.op = "create"
    /\ last.status = 422
    /\ "color" \in DOMAIN last.p
    /\ last.p["color"] = ColorBlue
    /\ DOMAIN _RECIPES # {}

(***************************************************************************)
(* C7 as stated: an update of an existing id in which a provided field     *)
(* breaks its constraint (a bad length, a bad color, a wrong type such as  *)
(* null) answers 422 and leaves the stored record as it was.               *)
(***************************************************************************)
C7_InvalidUpdateIs422 ==
    [][(/\ Handles("update")
        /\ last'.id \in DOMAIN _RECIPES
        /\ BreaksConstraint(last'.p))
       => (last'.status = 422 /\ _RECIPES' = _RECIPES)]_vars

(***************************************************************************)
(* C8: list answers 200 with exactly the stored records, each once, in     *)
(* strictly ascending id order, and changes neither the mapping nor the    *)
(* counter.                                                                *)
(***************************************************************************)
C8_ListAscending ==
    [][Handles("list")
       => LET out == last'.body
          IN  /\ last'.status = 200
              /\ Len(out) = Cardinality(DOMAIN _RECIPES)
              /\ \A i \in 1..Len(out) :
                    out[i].id \in DOMAIN _RECIPES /\ out[i] = _RECIPES[out[i].id]
              /\ \A i, j \in 1..Len(out) : i < j => out[i].id < out[j].id
              /\ StoreUnchanged]_vars

\* list has returned two records after a delete
C8_Witness ==
    /\ last.op = "list"
    /\ Len(last.body) >= 2
    /\ deleted # {}

(***************************************************************************)
(* C9: every stored record meets the field constraints: the title is a     *)
(* string of 1..120 characters, the description a string of at most 500,   *)
(* ingredients and steps are lists of strings, the color is '#' and six    *)
(* hex digits.                                                             *)
(***************************************************************************)
C9_StoredRecordsValid ==
    \A k \in DOMAIN _RECIPES : \A f \in Fields : Constraint(f, _RECIPES[k][f])

\* an update that set a field to null was refused while the record stayed
C9_Witness ==
    /\ last.op = "update"
    /\ last.status = 500
    /\ \E f \in DOMAIN last.p : last.p[f] = Null
    /\ last.id \in DOMAIN _RECIPES

(***************************************************************************)
(* C10 as stated: no step lowers _NEXT_ID, also when the steps of          *)
(* concurrent creates interleave.                                          *)
(***************************************************************************)
C10_CounterNeverDecreases == [][_NEXT_ID' >= _NEXT_ID]_vars

(***************************************************************************)
(* Reading timestamps: the instant an ISO string denotes, and the order of *)
(* two ISO strings as text.                                                *)
(***************************************************************************)
DigitVal(ch) ==
    CASE ch = "0" -> 0 [] ch = "1" -> 1 [] ch = "2" -> 2 [] ch = "3" -> 3 [] ch = "4" -> 4
      [] ch = "5" -> 5 [] ch = "6" -> 6 [] ch = "7" -> 7 [] ch = "8" -> 8 [] ch = "9" -> 9

CharCode(ch) == CASE ch = "+" -> 43 [] ch = "." -> 46 [] OTHER -> 48 + DigitVal(ch)

Instant(ts) ==
    (DigitVal(ts.v[1]) * 10 + DigitVal(ts.v[2])) * TicksPerSecond
        + (IF ts.v[3] = "." THEN DigitVal(ts.v[4]) ELSE 0)

RECURSIVE TextLeq(_, _)
TextLeq(a, b) ==
    IF a = <<>> THEN TRUE
    ELSE IF b = <<>> THEN FALSE
    ELSE IF a[1] = b[1] THEN TextLeq(Tail(a), Tail(b))
    ELSE CharCode(a[1]) < CharCode(b[1])

(***************************************************************************)
(* C11: with a clock that never goes back, every stored record has         *)
(* created_at <= updated_at (as instants and as ISO text); a record enters *)
(* the store with created_at = updated_at, only a successful update of it  *)
(* changes its updated_at, and nothing changes its created_at.             *)
(***************************************************************************)
C11_CreatedBeforeUpdated ==
    /\ [](\A k \in DOMAIN _RECIPES :
            /\ Instant(_RECIPES[k].created_at) <= Instant(_RECIPES[k].updated_at)
            /\ TextLeq(_RECIPES[k].created_at.v, _RECIPES[k].updated_at.v))
    /\ [][\A k \in DOMAIN _RECIPES' :
            IF k \notin DOMAIN _RECIPES
            THEN _RECIPES'[k].created_at = _RECIPES'[k].updated_at
            ELSE /\ _RECIPES'[k].created_at = _RECIPES[k].created_at
                 /\ ~(Handles("update") /\ last'.id = k /\ last'.status = 200)
                       => _RECIPES'[k].updated_at = _RECIPES[k].updated_at]_vars

\* a record was updated at a later clock reading than it was created at
C11_Witness ==
    /\ last.op = "update"
    /\ last.status = 200
    /\ Instant(_RECIPES[last.id].created_at) < Instant(_RECIPES[last.id].updated_at)
    /\ _RECIPES[last.id].updated_at = _utc_now_iso(clock)

(***************************************************************************)
(* C12: a successful create returns the record it stored, whose fields are *)
(* the supplied ones and, for each omitted optional field, the default     *)
(* (empty description, empty ingredients and steps, color '#3b82f6'); a    *)
(* get of the returned id right after it answers 200 with a record equal   *)
(* to it in every field.                                                   *)
(***************************************************************************)
C12_CreateGetRoundTrip ==
    [][/\ (Handles("create") /\ last'.status = 200)
            => LET r == last'.body[1]
               IN  /\ r.id \in DOMAIN _RECIPES' /\ _RECIPES'[r.id] = r
                   /\ r.title = last'.p["title"]
                   /\ r.description =
                         IF "description" \in DOMAIN last'.p THEN last'.p["description"]
                         ELSE Str(<<>>)
                   /\ r.ingredients =
                         IF "ingredients" \in DOMAIN last'.p THEN last'.p["ingredients"]
                         ELSE List(<<>>)
                   /\ r.steps =
                         IF "steps" \in DOMAIN last'.p THEN last'.p["steps"] ELSE List(<<>>)
                   /\ r.color =
                         IF "color" \in DOMAIN last'.p THEN last'.p["color"]
                         ELSE Str(<<"#", "3", "b", "8", "2", "f", "6">>)
       /\ (/\ last.op = "create" /\ last.status = 200
           /\ Handles("get") /\ last'.id = last.body[1].id)
            => (last'.status = 200 /\ last'.body = last.body)]_vars

\* get has returned a record that was created from the title alone and
\* not updated since
C12_Witness ==
    /\ last.op = "get"
    /\ last.status = 200
    /\ last.body[1].title = TitleT
    /\ last.body[1].description = Str(<<>>)
    /\ last.body[1].color = Str(<<"#", "3", "b", "8", "2", "f", "6">>)
    /\ last.body[1].created_at = last.body[1].updated_at

(***************************************************************************)
(* C13 as stated: list always succeeds, also when its steps interleave     *)
(* with a concurrent delete or create: a list that has returned answered   *)
(* 200.                                                                    *)
(***************************************************************************)
C13_ListAlwaysSucceeds ==
    \A w \in Workers : (th[w].pc = "idle" /\ th[w].op = "list") => th[w].status = 200

(***************************************************************************)
(* C14 as stated: when two concurrent updates of the same id that set      *)
(* disjoint fields have both answered 200, the stored record carries the   *)
(* values of both patches.                                                 *)
(***************************************************************************)
C14_NoLostUpdate ==
    \A w, u \in Workers :
        (/\ w # u
         /\ th[w].pc = "idle" /\ th[w].op = "update" /\ th[w].status = 200
         /\ th[u].pc = "idle" /\ th[u].op = "update" /\ th[u].status = 200
         /\ th[w].id = th[u].id
         /\ DOMAIN th[w].p \cap DOMAIN th[u].p = {})
            => \A f \in DOMAIN th[w].p : _RECIPES[th[w].id][f] = th[w].p[f]

(***************************************************************************)
(* C15: every key of the store is a positive integer and the record under  *)
(* key k has id k, so the ids of the stored records are unique; a key      *)
(* "id" in the body of a create or an update changes neither.              *)
(***************************************************************************)
C15_IdEqualsKey ==
    /\ \A k \in DOMAIN _RECIPES : k \in Nat /\ k >= 1 /\ _RECIPES[k].id = k
    /\ \A j, k \in DOMAIN _RECIPES : j # k => _RECIPES[j].id # _RECIPES[k].id

\* an update whose body carries another id has been applied, and the
\* record still has the id of its key
C15_Witness ==
    /\ last.op = "update"
    /\ last.status = 200
    /\ "id" \in DOMAIN last.p
    /\ last.p["id"] # last.id
    /\ _RECIPES[last.id].id = last.id
    /\ _RECIPES[last.id].title = TitleU
    /\ Cardinality(DOMAIN _RECIPES) >= 2

(***************************************************************************)
(* C16: get, update and delete with an id that is zero or negative answer  *)
(* 422, never 404, and leave the mapping and the counter as they were.     *)
(***************************************************************************)
C16_NonPositiveIdIs422 ==
    [][(/\ last' # last
        /\ last'.op \in {"get", "update", "delete"}
        /\ last'.id <= 0)
       => (last'.status = 422 /\ last'.body = <<>> /\ StoreUnchanged)]_vars

\* a delete of id 0 was rejected while records were stored
C16_Witness ==
    /\ last.op = "delete"
    /\ last.id = 0
    /\ last.status = 422
    /\ DOMAIN _RECIPES # {}

(***************************************************************************)
(* C17 as stated: an update of a positive id that is not in the store      *)
(* answers 404 whatever its body is, also when a provided field breaks its *)
(* constraint.                                                             *)
(***************************************************************************)
C17_AsStated ==
    [][(Handles("update") /\ last'.id >= 1 /\ last'.id \notin DOMAIN _RECIPES)
       => last'.status = 404]_vars

(***************************************************************************)
(* C17, amended: an update of a positive id that is not in the store       *)
(* answers 422 exactly when a provided field is not null and breaks its    *)
(* constraint, and 404 otherwise (also when the body carries unknown keys  *)
(* or sets a field to null): the validation of the body takes precedence   *)
(* over the missing id.  Neither answer changes the store.                 *)
(***************************************************************************)
C17_ValidationBeforeLookup ==
    [][(Handles("update") /\ last'.id >= 1 /\ last'.id \notin DOMAIN _RECIPES)
       => /\ last'.status \in {404, 422}
          /\ last'.status = 422
                <=> \E f \in Fields \cap DOMAIN last'.p :
                       last'.p[f] # Null /\ ~Constraint(f, last'.p[f])
          /\ _RECIPES' = _RECIPES]_vars

\* an update with a bad color of an id that is not in the store was
\* answered 422 while another record was stored
C17_Witness ==
    /\ last.op = "update"
    /\ last.status = 422
    /\ last.id >= 1
    /\ last.id \notin DOMAIN _RECIPES
    /\ "color" \in DOMAIN last.p
    /\ last.p["color"] = ColorBlue
    /\ DOMAIN _RECIPES # {}

(***************************************************************************)
(* C18 as stated: the counter is greater than every key of the store, in   *)
(* every state that sequential or concurrent creates reach.                *)
(***************************************************************************)
C18_CounterAboveKeys == \A k \in DOMAIN _RECIPES : k < _NEXT_ID

====
